---- MODULE Spec2Model ----
(***************************************************************************)
(* Model of the PDF table-of-contents segmentation pipeline of the e-book  *)
(* summarizer: pdf_extractor.py (build_toc_tree, collect_leaf_nodes,       *)
(* get_ancestor_intro_texts, extract_text_for_node, extract_pdf_content)   *)
(* and of the summarise-and-save loop of main.py (extract_chapters).       *)
(*                                                                         *)
(* TOCNode objects live in a heap `nodes`, a sequence indexed by the       *)
(* node's idx; a reference to a node is its idx.  Text is a sequence of    *)
(* whitespace-separated words (tokens): str.split() of a text is the text  *)
(* itself, and strip() / ' '.join() do not change the sequence of words.   *)
(***************************************************************************)
EXTENDS Integers, Sequences, FiniteSets, TLC

\* ------------------------------------------------------------------ bounds
MaxLen == 3        \* longest outline (number of TOC entries)
MaxLevel == 3      \* outline levels are 1..MaxLevel
MaxPage == 3       \* outline pages are 1..MaxPage; documents have 1..MaxPage pages
MaxMinWords == 2   \* min_word_count is drawn from 0..MaxMinWords
MaxSegments == 3   \* longest chapter_data list handed to the summarise/save loop

\* the title of the i-th outline entry (distinct names, one word each)
TitleNames == <<"Ch1", "Sec2", "Sec3", "Sec4", "Sec5", "Sec6">>

\* Python's None for end_page and parent.  Outline pages and idx values are
\* >= 1, so 0 is free; `if node.end_page` is false for None and for 0 alike.
None == 0

\* AI_BATCH_SIZE of constants.py
AI_BATCH_SIZE == 50

VARIABLES
  pc,             \* position in extract_pdf_content / extract_chapters
  toc,            \* doc.get_toc(): sequence of [level, title, page]
  doc,            \* the document: doc[p] is TRUE iff page p (1-indexed) has text
  min_word_count, \* parameter of extract_pdf_content
  nodes,          \* heap of TOCNode objects, indexed by idx
  tree_roots,     \* result of build_toc_tree: sequence of idx
  leaf_nodes,     \* result of collect_leaf_nodes: sequence of idx
  leaf_data,      \* result list of extract_pdf_content
  attached,       \* per processed leaf: the page ranges that make up its text, and its words
  chapter_data,   \* extract_chapters: the extracted segments
  sumOutcome,     \* summarizer's behaviour per segment: "ok", "empty" or "raise"
  writeOutcome,   \* file write's behaviour per segment: "ok" or "raise"
  summaries,      \* result of extract_notes_batch
  saved,          \* files written: set of filenames
  pos             \* index of the current for loop (leaf loop, save loop)

vars == <<pc, toc, doc, min_word_count, nodes, tree_roots, leaf_nodes, leaf_data,
          attached, chapter_data, sumOutcome, writeOutcome, summaries, saved, pos>>

pdfVars == <<toc, doc, min_word_count, nodes, tree_roots, leaf_nodes, leaf_data, attached>>
mainVars == <<chapter_data, sumOutcome, writeOutcome, summaries, saved, pos>>

\* ------------------------------------------------------------- helpers
\* Python's range(a, b) as a sequence
Range(a, b) == [i \in 1..(b - a) |-> a + i - 1]

RECURSIVE Concat(_)
\* concatenation of a sequence of sequences
Concat(ss) == IF Len(ss) = 0 THEN <<>> ELSE Head(ss) \o Concat(Tail(ss))

SeqSet(s) == {s[i] : i \in 1..Len(s)}

\* ----------------------------------------------------------- TOCNode
\* text is <<>> for None and <<words>> once assigned; summary is never assigned
TOCNode(level, title, page, idx) ==
  [level |-> level, title |-> title, page |-> page, idx |-> idx,
   end_page |-> None, children |-> <<>>, text |-> <<>>, summary |-> None,
   parent |-> None]

is_leaf(node) == Len(node.children) = 0

\* f"{idx:03d}_{sanitized}": the idx part and the title part
get_filename(node) == <<node.idx, node.title>>

\* ------------------------------------------------------- build_toc_tree
\* mutant: enumerate(toc) without start=1
CreateNodes_ZeroBased(t) ==
  [i \in 1..Len(t) |-> TOCNode(t[i].level, t[i].title, t[i].page, i - 1)]

\* "Create all nodes": enumerate(toc, start=1)
CreateNodes(t) == [i \in 1..Len(t) |-> TOCNode(t[i].level, t[i].title, t[i].page, i)]

RECURSIVE FindEndPage_Inclusive(_, _, _)
\* mutant: the closing entry's page taken as an inclusive end (page - 1)
FindEndPage_Inclusive(ns, i, j) ==
  IF j > Len(ns) THEN ns[i].end_page
  ELSE IF ns[j].level <= ns[i].level THEN ns[j].page - 1
  ELSE FindEndPage_Inclusive(ns, i, j + 1)

RECURSIVE FindEndPage_Strict(_, _, _)
\* mutant: only a strictly shallower entry closes a node
FindEndPage_Strict(ns, i, j) ==
  IF j > Len(ns) THEN ns[i].end_page
  ELSE IF ns[j].level < ns[i].level THEN ns[j].page
  ELSE FindEndPage_Strict(ns, i, j + 1)

RECURSIVE FindEndPage(_, _, _)
\* the inner loop over j in range(i + 1, len(nodes)) (1-indexed here), with its break
FindEndPage(ns, i, j) ==
  IF j > Len(ns) THEN ns[i].end_page
  ELSE IF ns[j].level <= ns[i].level THEN ns[j].page
  ELSE FindEndPage(ns, i, j + 1)

\* "Set end_page for each node"
SetEndPages(ns) == [i \in 1..Len(ns) |-> [ns[i] EXCEPT !.end_page = FindEndPage(ns, i, i + 1)]]

RECURSIVE PopStack_Strict(_, _)
\* mutant: the stack is popped only past strictly deeper entries
PopStack_Strict(stack, level) ==
  IF Len(stack) > 0 /\ stack[Len(stack)][1] > level
  THEN PopStack_Strict(SubSeq(stack, 1, Len(stack) - 1), level)
  ELSE stack

RECURSIVE PopStack(_, _)
\* while stack and stack[-1][0] >= node.level: stack.pop()
PopStack(stack, level) ==
  IF Len(stack) > 0 /\ stack[Len(stack)][1] >= level
  THEN PopStack(SubSeq(stack, 1, Len(stack) - 1), level)
  ELSE stack

RECURSIVE BuildHierarchy(_, _, _, _)
\* "Build hierarchy": the loop over nodes, from node k on
BuildHierarchy(ns, roots, stack, k) ==
  IF k > Len(ns) THEN [nodes |-> ns, roots |-> roots]
  ELSE LET st == PopStack(stack, ns[k].level)
           pushed == Append(st, <<ns[k].level, k>>)
       IN IF Len(st) > 0
          THEN LET parent == st[Len(st)][2]
               IN BuildHierarchy([ns EXCEPT ![parent].children = Append(@, k),
                                            ![k].parent = parent],
                                 roots, pushed, k + 1)
          ELSE BuildHierarchy(ns, Append(roots, k), pushed, k + 1)

\* build_toc_tree(toc): the heap of nodes it creates and the roots it returns
build_toc_tree(t) ==
  IF Len(t) = 0 THEN [nodes |-> <<>>, roots |-> <<>>]
  ELSE BuildHierarchy(SetEndPages(CreateNodes(t)), <<>>, <<>>, 1)

\* --------------------------------------------------- collect_leaf_nodes
RECURSIVE traverse_Reversed(_, _)
\* mutant: the children are visited last to first
traverse_Reversed(ns, n) ==
  IF is_leaf(ns[n]) THEN <<n>>
  ELSE Concat([c \in 1..Len(ns[n].children) |->
                 traverse_Reversed(ns, ns[n].children[Len(ns[n].children) + 1 - c])])

RECURSIVE traverse(_, _)
\* traverse(node): the leaves it appends, in the order it appends them
traverse(ns, n) ==
  IF is_leaf(ns[n]) THEN <<n>>
  ELSE Concat([c \in 1..Len(ns[n].children) |-> traverse(ns, ns[n].children[c])])

collect_leaf_nodes(ns, roots) == Concat([r \in 1..Len(roots) |-> traverse(ns, roots[r])])

\* ------------------------------------------------------ text extraction
\* a word of the text of page p (1-indexed)
PageWord(p) == [kind |-> "page", s |-> "", page |-> p]
\* a literal word that the code writes into a text
Lit(s) == [kind |-> "lit", s |-> s, page |-> 0]

\* doc[page_num].get_text(), page_num 0-indexed: one word or none
get_text(d, page_num) == IF d[page_num + 1] THEN <<PageWord(page_num + 1)>> ELSE <<>>

\* mutant: an open end_page resolved to the last page's index, not to the length
NodePages_OpenEndShort(node, doc_length) ==
  LET start_page == node.page - 1
      end_page == IF node.end_page # None THEN node.end_page - 1 ELSE doc_length - 1
  IN SelectSeq(Range(start_page, end_page), LAMBDA n : n < doc_length)

\* mutant: an end_page before the node's page is taken as an open end
NodePages_InvalidEndOpen(node, doc_length) ==
  LET start_page == node.page - 1
      end_page == IF node.end_page # None /\ node.end_page >= node.page
                  THEN node.end_page - 1 ELSE doc_length
  IN SelectSeq(Range(start_page, end_page), LAMBDA n : n < doc_length)

\* the 0-indexed pages that extract_text_for_node reads: range(start_page, end_page)
\* under the test page_num < doc_length
NodePages(node, doc_length) ==
  LET start_page == node.page - 1
      end_page == IF node.end_page # None THEN node.end_page - 1 ELSE doc_length
  IN SelectSeq(Range(start_page, end_page), LAMBDA n : n < doc_length)

extract_text_for_node(d, node, doc_length) ==
  LET ps == NodePages(node, doc_length)
  IN Concat([i \in 1..Len(ps) |-> get_text(d, ps[i])])

\* the 0-indexed pages that extract_text_for_page_range reads
RangePages(start_page, end_page, doc_length) ==
  LET start_idx == start_page - 1
      end_idx == end_page - 1
  IN SelectSeq(Range(start_idx, end_idx), LAMBDA n : 0 <= n /\ n < doc_length)

extract_text_for_page_range(d, start_page, end_page, doc_length) ==
  LET ps == RangePages(start_page, end_page, doc_length)
  IN Concat([i \in 1..Len(ps) |-> get_text(d, ps[i])])

\* ------------------------------------------- get_ancestor_intro_texts
\* f"[Context from: {parent.title}]\n{intro}" for a one-word title, with the
\* parent and the 1-indexed pages the intro was read from
Fragment(parent, intro, doc_length, first_page) ==
  [owner |-> parent.idx,
   pages |-> [i \in 1..Len(RangePages(parent.page, first_page, doc_length)) |->
                 RangePages(parent.page, first_page, doc_length)[i] + 1],
   text  |-> <<Lit("[Context"), Lit("from:"),
               [kind |-> "title]", s |-> parent.title, page |-> 0]>> \o intro]

RECURSIVE IntroWalk_EveryChild(_, _, _, _, _)
\* mutant: the walk does not test that current is the parent's first child
IntroWalk_EveryChild(d, ns, current, doc_length, intro_texts) ==
  IF ns[current].parent = None THEN intro_texts
  ELSE LET parent == ns[ns[current].parent]
           first_child == ns[parent.children[1]]
           intro == extract_text_for_page_range(d, parent.page, first_child.page, doc_length)
       IN IntroWalk_EveryChild(d, ns, parent.idx, doc_length,
                               IF parent.page < first_child.page /\ Len(intro) > 0
                               THEN <<Fragment(parent, intro, doc_length, first_child.page)>>
                                    \o intro_texts
                               ELSE intro_texts)

RECURSIVE IntroWalk(_, _, _, _, _)
\* the while loop of get_ancestor_intro_texts: the list intro_texts it builds
IntroWalk(d, ns, current, doc_length, intro_texts) ==
  IF ns[current].parent = None THEN intro_texts
  ELSE LET parent == ns[ns[current].parent]
       IN IF Len(parent.children) > 0 /\ parent.children[1] = current
          THEN LET first_child == ns[parent.children[1]]
                   intro == extract_text_for_page_range(d, parent.page, first_child.page,
                                                        doc_length)
               IN IntroWalk(d, ns, parent.idx, doc_length,
                            IF parent.page < first_child.page /\ Len(intro) > 0
                            THEN <<Fragment(parent, intro, doc_length, first_child.page)>>
                                 \o intro_texts
                            ELSE intro_texts)
          ELSE intro_texts

intro_texts_of(d, ns, n, doc_length) == IntroWalk(d, ns, n, doc_length, <<>>)

\* "\n\n".join(intro_texts)
get_ancestor_intro_texts(d, ns, n, doc_length) ==
  LET fs == intro_texts_of(d, ns, n, doc_length)
  IN Concat([i \in 1..Len(fs) |-> fs[i].text])

\* ------------------------------------------------ extract_pdf_content
\* combined_text.split() of one leaf
CombinedWords(d, ns, n, doc_length) ==
  LET ancestor_intro == get_ancestor_intro_texts(d, ns, n, doc_length)
      leaf_text == extract_text_for_node(d, ns[n], doc_length)
  IN IF Len(ancestor_intro) > 0 THEN ancestor_intro \o <<Lit("---")>> \o leaf_text
     ELSE leaf_text

\* mutant: a segment of exactly min_word_count words is dropped
KeepSegment_Strict(words, min_words) == Len(words) > min_words

\* if len(words) >= min_word_count
KeepSegment(words, min_words) == Len(words) >= min_words

\* ------------------------------------------------------------ inputs
Entries == [level : 1..MaxLevel, page : 1..MaxPage]

\* the outline with the levels and pages e; the i-th entry is titled TitleNames[i]
Outline(e) ==
  [i \in 1..Len(e) |-> [level |-> e[i].level, title |-> TitleNames[i], page |-> e[i].page]]

\* documents of 1..MaxPage pages, each page with text or blank
Docs == UNION {[1..d -> BOOLEAN] : d \in 1..MaxPage}

\* ------------------------------------------------- extract_pdf_content
\* fitz.open(pdf_path) has opened document d, whose outline is t
Opened(t, d, m) ==
  /\ pc = "open"
  /\ toc = t
  /\ doc = d
  /\ min_word_count = m
  /\ nodes = <<>>
  /\ tree_roots = <<>>
  /\ leaf_nodes = <<>>
  /\ leaf_data = <<>>
  /\ attached = <<>>
  /\ chapter_data = <<>>
  /\ sumOutcome = <<>>
  /\ writeOutcome = <<>>
  /\ summaries = <<>>
  /\ saved = {}
  /\ pos = 1

Init ==
  \E n \in 0..MaxLen : \E e \in [1..n -> Entries] :
    \E d \in Docs : \E m \in 0..MaxMinWords : Opened(Outline(e), d, m)

\* mutant: the test `if not toc` is missing, and the function goes on to
\* build the tree of the empty outline
RaiseNoToc_Unchecked ==
  /\ pc = "open"
  /\ Len(toc) = 0
  /\ nodes' = build_toc_tree(toc).nodes
  /\ tree_roots' = build_toc_tree(toc).roots
  /\ pc' = "built"
  /\ UNCHANGED <<toc, doc, min_word_count, leaf_nodes, leaf_data, attached, mainVars>>

\* if not toc: doc.close(); raise ValueError
RaiseNoToc ==
  /\ pc = "open"
  /\ Len(toc) = 0
  /\ pc' = "raised"
  /\ UNCHANGED <<pdfVars, mainVars>>

\* tree_roots = build_toc_tree(toc)
BuildTree ==
  /\ pc = "open"
  /\ Len(toc) > 0
  /\ nodes' = build_toc_tree(toc).nodes
  /\ tree_roots' = build_toc_tree(toc).roots
  /\ pc' = "built"
  /\ UNCHANGED <<toc, doc, min_word_count, leaf_nodes, leaf_data, attached, mainVars>>

\* leaf_nodes = collect_leaf_nodes(tree_roots); leaf_data = []
CollectLeaves ==
  /\ pc = "built"
  /\ leaf_nodes' = collect_leaf_nodes(nodes, tree_roots)
  /\ pos' = 1
  /\ pc' = "extract"
  /\ UNCHANGED <<toc, doc, min_word_count, nodes, tree_roots, leaf_data, attached,
                 chapter_data, sumOutcome, writeOutcome, summaries, saved>>

\* one iteration of "for node in leaf_nodes"
ExtractLeaf ==
  /\ pc = "extract"
  /\ pos <= Len(leaf_nodes)
  /\ LET n == leaf_nodes[pos]
         doc_length == Len(doc)
         words == CombinedWords(doc, nodes, n, doc_length)
         fs == intro_texts_of(doc, nodes, n, doc_length)
         own == NodePages(nodes[n], doc_length)
     IN /\ attached' = Append(attached,
              [leaf  |-> n,
               intro |-> [i \in 1..Len(fs) |-> [owner |-> fs[i].owner, pages |-> fs[i].pages]],
               own   |-> [i \in 1..Len(own) |-> own[i] + 1],
               words |-> words])
        /\ IF KeepSegment(words, min_word_count)
           THEN /\ nodes' = [nodes EXCEPT ![n].text = <<words>>]
                /\ leaf_data' = Append(leaf_data, [node |-> n, text |-> words])
           ELSE UNCHANGED <<nodes, leaf_data>>
  /\ pos' = pos + 1
  /\ UNCHANGED <<pc, toc, doc, min_word_count, tree_roots, leaf_nodes,
                 chapter_data, sumOutcome, writeOutcome, summaries, saved>>

\* doc.close(); return leaf_data
ReturnLeafData ==
  /\ pc = "extract"
  /\ pos > Len(leaf_nodes)
  /\ pc' = "returned"
  /\ UNCHANGED <<pdfVars, mainVars>>

Next == RaiseNoToc \/ BuildTree \/ CollectLeaves \/ ExtractLeaf \/ ReturnLeafData

Spec == Init /\ [][Next]_vars

\* build_toc_tree and collect_leaf_nodes alone, on every outline
InitTree ==
  \E n \in 0..MaxLen : \E e \in [1..n -> Entries] :
    Opened(Outline(e), [p \in 1..MaxPage |-> TRUE], 0)

NextTree == RaiseNoToc \/ BuildTree \/ CollectLeaves

SpecTree == InitTree /\ [][NextTree]_vars

\* ---------------------------------------------- extract_chapters (PDF)
\* The '.pdf' branch of extract_chapters, from the return of
\* extract_pdf_content on; the '.epub' branch runs the same summarise and save
\* steps on a flat chapter list.
\* the n-entry outline of level-1 sections, one page each
FlatToc(n) == [i \in 1..n |-> [level |-> 1, title |-> TitleNames[i], page |-> i]]

\* the elements of a set of numbers in increasing order
RECURSIVE Sorted(_)
Sorted(S) == IF S = {} THEN <<>>
             ELSE LET m == CHOOSE x \in S : \A y \in S : x <= y
                  IN <<m>> \o Sorted(S \ {m})

\* the state in which extract_pdf_content has returned the segments of the
\* leaves `kept` of FlatToc(n), with the collaborators' behaviour per segment
InitMain ==
  \E n \in 0..MaxSegments : \E kept \in SUBSET (1..n) :
    /\ pc = "chapters"
    /\ toc = FlatToc(n)
    /\ doc = [p \in 1..n |-> TRUE]
    /\ min_word_count = 1
    /\ nodes = [i \in 1..n |->
                 [build_toc_tree(FlatToc(n)).nodes[i] EXCEPT
                    !.text = IF i \in kept THEN <<(<<PageWord(i)>>)>> ELSE <<>>]]
    /\ tree_roots = build_toc_tree(FlatToc(n)).roots
    /\ leaf_nodes = tree_roots
    /\ leaf_data = [k \in 1..Cardinality(kept) |->
                      [node |-> Sorted(kept)[k], text |-> <<PageWord(Sorted(kept)[k])>>]]
    /\ attached = <<>>
    /\ chapter_data = leaf_data
    /\ sumOutcome \in [1..Cardinality(kept) -> {"ok", "empty", "raise"}]
    /\ writeOutcome \in [1..Cardinality(kept) -> {"ok", "raise"}]
    /\ summaries = <<>>
    /\ saved = {}
    /\ pos = 1

\* if not chapter_data: return
NoChapters ==
  /\ pc = "chapters"
  /\ Len(chapter_data) = 0
  /\ pc' = "done"
  /\ UNCHANGED <<pdfVars, mainVars>>

\* the start indices of extract_notes_batch's chunks: range(0, len(texts), AI_BATCH_SIZE)
BatchStarts(n) == {i \in 0..(n - 1) : i % AI_BATCH_SIZE = 0}

\* llm.generate raises for a chunk that holds a segment the summarizer fails on
BatchRaises(n, i) ==
  \E k \in (i + 1)..(i + AI_BATCH_SIZE) : k <= n /\ sumOutcome[k] = "raise"

\* output.outputs[0].text.strip() of segment k
NotesOf(k) == IF sumOutcome[k] = "ok" THEN <<"notes", k>> ELSE <<>>

\* summaries = extract_notes_batch(texts): an exception of llm.generate is not
\* caught, neither there nor in extract_chapters
Summarize ==
  /\ pc = "chapters"
  /\ Len(chapter_data) > 0
  /\ IF \E i \in BatchStarts(Len(chapter_data)) : BatchRaises(Len(chapter_data), i)
     THEN /\ pc' = "raised"
          /\ UNCHANGED summaries
     ELSE /\ pc' = "saving"
          /\ summaries' = [k \in 1..Len(chapter_data) |-> NotesOf(k)]
  /\ pos' = 1
  /\ UNCHANGED <<pdfVars, chapter_data, sumOutcome, writeOutcome, saved>>

\* one iteration of "for item, summary in zip(chapter_data, summaries)":
\* save_single_chapter's open() or write() may raise, and nothing catches it
SaveSection ==
  /\ pc = "saving"
  /\ pos <= Len(chapter_data) /\ pos <= Len(summaries)
  /\ IF Len(summaries[pos]) > 0
     THEN IF writeOutcome[pos] = "raise"
          THEN /\ pc' = "raised"
               /\ UNCHANGED <<saved, pos>>
          ELSE /\ saved' = saved \cup {get_filename(nodes[chapter_data[pos].node])}
               /\ pos' = pos + 1
               /\ UNCHANGED pc
     ELSE /\ pos' = pos + 1
          /\ UNCHANGED <<pc, saved>>
  /\ UNCHANGED <<pdfVars, chapter_data, sumOutcome, writeOutcome, summaries>>

\* the loop is over: print(...) and return
FinishChapters ==
  /\ pc = "saving"
  /\ ~(pos <= Len(chapter_data) /\ pos <= Len(summaries))
  /\ pc' = "done"
  /\ UNCHANGED <<pdfVars, mainVars>>

NextMain == NoChapters \/ Summarize \/ SaveSection \/ FinishChapters

SpecMain == InitMain /\ [][NextMain]_vars

\* ====================================================================
\* Properties
\* ====================================================================
N == Len(toc)

\* build_toc_tree has returned
Built == pc \in {"built", "extract", "returned"}

\* the nearest earlier entry with a strictly smaller level, or None
NearestShallower(i) ==
  IF \E j \in 1..(i - 1) : toc[j].level < toc[i].level
  THEN CHOOSE j \in 1..(i - 1) :
         /\ toc[j].level < toc[i].level
         /\ \A k \in (j + 1)..(i - 1) : toc[k].level >= toc[i].level
  ELSE None

Increasing(s) == \A a, b \in 1..Len(s) : a < b => s[a] < s[b]

\* C1: for every outline, the parent of entry i is the nearest earlier entry
\* with a strictly smaller level; entry i is a root iff no earlier entry has a
\* strictly smaller level; every children list and the roots list is in
\* increasing outline order.
C1_ParentIsNearestShallower ==
  Built =>
    /\ \A i \in 1..N :
         /\ nodes[i].parent = NearestShallower(i)
         /\ (i \in SeqSet(tree_roots)) <=> (\A j \in 1..(i - 1) : toc[j].level >= toc[i].level)
         /\ Increasing(nodes[i].children)
         /\ SeqSet(nodes[i].children) = {k \in 1..N : NearestShallower(k) = i}
    /\ Increasing(tree_roots)

\* a built tree in which a level is skipped (a child two levels below its
\* parent) and a later entry is a root again
C1_Witness ==
  /\ pc = "built"
  /\ \E i \in 1..N :
       /\ nodes[i].parent # None
       /\ toc[i].level > toc[nodes[i].parent].level + 1
  /\ \E i \in 2..N : i \in SeqSet(tree_roots)

RECURSIVE PreOrder(_, _)
\* n and its descendants, depth first, children in stored order
PreOrder(ns, n) ==
  <<n>> \o Concat([c \in 1..Len(ns[n].children) |-> PreOrder(ns, ns[n].children[c])])

\* every node reachable from the roots, once per path that reaches it
Reachable == Concat([r \in 1..Len(tree_roots) |-> PreOrder(nodes, tree_roots[r])])

\* how often node n is a root or a child
Owners(n) ==
  Cardinality({r \in 1..Len(tree_roots) : tree_roots[r] = n})
  + Cardinality({<<q, c>> \in (1..N) \X (1..N) :
                   c <= Len(nodes[q].children) /\ nodes[q].children[c] = n})

\* C10: for every outline of length N there is exactly one node per entry, with
\* level, title and page copied from the entry and idx values 1..N in outline
\* order, and every node is reachable from the roots exactly once: it is a
\* root or a child of exactly one parent.
C10_OneNodePerEntry ==
  Built =>
    /\ Len(nodes) = N
    /\ \A i \in 1..N :
         /\ nodes[i].level = toc[i].level
         /\ nodes[i].title = toc[i].title
         /\ nodes[i].page = toc[i].page
         /\ nodes[i].idx = i
         /\ Owners(i) = 1
         /\ Cardinality({k \in 1..Len(Reachable) : Reachable[k] = i}) = 1
    /\ Len(Reachable) = N

\* a forest of MaxLen nodes with two roots or more and a parent
C10_Witness ==
  /\ pc = "built"
  /\ N = MaxLen
  /\ Len(tree_roots) >= 2
  /\ \E i \in 1..N : Len(nodes[i].children) >= 1

\* C6: collect_leaf_nodes returns exactly the nodes without children, each
\* once, in depth-first pre-order; the order is fixed by the outline's levels:
\* the entries not followed by a deeper entry, in outline order.
C6_LeavesInPreOrder ==
  pc \in {"extract", "returned"} =>
    /\ leaf_nodes = SelectSeq(Reachable, LAMBDA n : Len(nodes[n].children) = 0)
    /\ SeqSet(leaf_nodes) = {n \in 1..N : Len(nodes[n].children) = 0}
    /\ \A a, b \in 1..Len(leaf_nodes) : a # b => leaf_nodes[a] # leaf_nodes[b]
    /\ leaf_nodes = SelectSeq([i \in 1..N |-> i],
                              LAMBDA i : i = N \/ toc[i + 1].level <= toc[i].level)

\* leaves collected from a forest with two roots, one of them with a child
C6_Witness ==
  /\ pc = "extract"
  /\ Len(tree_roots) >= 2
  /\ Len(leaf_nodes) >= 2
  /\ \E i \in 1..N : Len(nodes[i].children) >= 1

Monotone == \A i \in 1..(N - 1) : toc[i].page <= toc[i + 1].page

\* C8 as stated: for every outline, every node has end_page open or
\* end_page >= page.
C8_Original ==
  Built => \A i \in 1..N : nodes[i].end_page = None \/ nodes[i].page <= nodes[i].end_page

\* C8 amended: for every outline whose pages are non-decreasing in outline
\* order, every node has end_page open or end_page >= page.
C8_EndNotBeforeStart ==
  (Built /\ Monotone) =>
    \A i \in 1..N : nodes[i].end_page = None \/ nodes[i].page <= nodes[i].end_page

\* non-decreasing pages with an empty range, a non-empty range and an open end
C8_Witness ==
  /\ pc = "built"
  /\ Monotone
  /\ \E i \in 1..N : nodes[i].end_page # None /\ nodes[i].end_page = nodes[i].page
  /\ \E i \in 1..N : nodes[i].end_page # None /\ nodes[i].end_page > nodes[i].page
  /\ \E i \in 1..N : nodes[i].end_page = None

\* ------------------------------------------------- page ranges and text
D == Len(doc)

\* the page of the first later entry at the same or a shallower level, or None
NextClosingPage(i) ==
  IF \E j \in (i + 1)..N : toc[j].level <= toc[i].level
  THEN toc[CHOOSE j \in (i + 1)..N :
             /\ toc[j].level <= toc[i].level
             /\ \A k \in (i + 1)..(j - 1) : toc[k].level > toc[i].level].page
  ELSE None

\* the pages a .. b of the document, in order (empty if a > b)
PagesFromTo(a, b) == [k \in 1..(b - a + 1) |-> a + k - 1]

\* C2: every node's end_page is the page of the first later entry at the same
\* or a shallower level, however many deeper entries lie between; without such
\* an entry end_page stays None, and the node's own text then runs from its
\* page through the last page of the document.
C2_EndPageIsNextClosingEntry ==
  Built =>
    /\ \A i \in 1..N :
         /\ nodes[i].end_page = NextClosingPage(i)
         /\ nodes[i].end_page = None =>
              /\ [k \in 1..Len(NodePages(nodes[i], D)) |-> NodePages(nodes[i], D)[k] + 1]
                   = PagesFromTo(nodes[i].page, D)
              /\ extract_text_for_node(doc, nodes[i], D)
                   = SelectSeq([k \in 1..Len(PagesFromTo(nodes[i].page, D)) |->
                                  PageWord(PagesFromTo(nodes[i].page, D)[k])],
                               LAMBDA w : doc[w.page])
    /\ \A k \in 1..Len(attached) :
         nodes[attached[k].leaf].end_page = None =>
           attached[k].own = PagesFromTo(nodes[attached[k].leaf].page, D)

\* a node closed by an entry that follows a deeper one, and a processed leaf
\* with an open end that runs over two pages or more to the document's end
C2_Witness ==
  /\ pc = "returned"
  /\ \E i \in 1..N : i + 1 < N + 1 /\ nodes[i].end_page # None
                      /\ toc[i + 1].level > toc[i].level
  /\ \E k \in 1..Len(attached) :
       /\ nodes[attached[k].leaf].end_page = None
       /\ Len(attached[k].own) >= 2
       /\ attached[k].own[Len(attached[k].own)] = D

RECURSIVE LeftmostLeaf(_)
\* the leaf reached from n by repeatedly following children[0]
LeftmostLeaf(n) == IF Len(nodes[n].children) = 0 THEN n ELSE LeftmostLeaf(nodes[n].children[1])

\* a non-leaf node whose page is before its first child's page
HasIntroRange(P) ==
  /\ Len(nodes[P].children) > 0
  /\ nodes[P].page < nodes[nodes[P].children[1]].page

\* the pages of P's intro range that the document has
IntroRangePages(P) ==
  SelectSeq(PagesFromTo(nodes[P].page, nodes[nodes[P].children[1]].page - 1),
            LAMBDA q : q <= D)

\* the intro range of P holds some text
IntroHasText(P) == \E i \in 1..Len(IntroRangePages(P)) : doc[IntroRangePages(P)[i]]

\* the processed leaves whose ancestor intro holds a fragment of P, with its pages
Receivers(P) ==
  {<<attached[k].leaf, attached[k].intro[f].pages>> :
     <<k, f>> \in {<<k, f>> \in (1..Len(attached)) \X (1..N) :
                     f <= Len(attached[k].intro) /\ attached[k].intro[f].owner = P}}

\* the number of fragments of P over all processed leaves
FragmentCount(P) ==
  Cardinality({<<k, f>> \in (1..Len(attached)) \X (1..N) :
                 f <= Len(attached[k].intro) /\ attached[k].intro[f].owner = P})

IsFirstChild(n) ==
  /\ nodes[n].parent # None
  /\ nodes[nodes[n].parent].children[1] = n

\* C3 as stated: the intro range of every non-leaf node P with P.page before
\* its first child's page is attached to exactly one leaf, the leftmost leaf
\* under P, and a leaf that is not a first child receives no ancestor intro.
C3_Original ==
  pc = "returned" =>
    /\ \A P \in 1..N : HasIntroRange(P) =>
         /\ Receivers(P) = {<<LeftmostLeaf(P), IntroRangePages(P)>>}
         /\ FragmentCount(P) = 1
    /\ \A k \in 1..Len(attached) :
         ~IsFirstChild(attached[k].leaf) => attached[k].intro = <<>>

\* C3 amended: if the intro range of P yields non-empty text it is attached to
\* exactly one leaf, the leftmost leaf under P; if it yields no text it is
\* attached to no leaf; a node without an intro range contributes nothing; a
\* leaf that is not a first child receives no ancestor intro.
C3_IntroToLeftmostLeaf ==
  pc = "returned" =>
    /\ \A P \in 1..N :
         IF HasIntroRange(P) /\ IntroHasText(P)
         THEN /\ Receivers(P) = {<<LeftmostLeaf(P), IntroRangePages(P)>>}
              /\ FragmentCount(P) = 1
         ELSE Receivers(P) = {}
    /\ \A k \in 1..Len(attached) :
         ~IsFirstChild(attached[k].leaf) => attached[k].intro = <<>>

\* the leftmost leaf under P is a grandchild of P and has received the intro
\* ranges of P and of P's first child
C3_Witness ==
  /\ pc = "returned"
  /\ \E P \in 1..N :
       /\ HasIntroRange(P)
       /\ LeftmostLeaf(P) # nodes[P].children[1]
       /\ HasIntroRange(nodes[P].children[1])
       /\ Receivers(P) # {}
       /\ Receivers(nodes[P].children[1]) # {}

\* the pages attributed to the k-th processed leaf
LeafPages(k) ==
  SeqSet(attached[k].own)
  \cup UNION {SeqSet(attached[k].intro[f].pages) : f \in 1..Len(attached[k].intro)}

\* C4 as stated: for all outlines, the page ranges of any two leaves are disjoint.
C4_Original ==
  pc = "returned" =>
    \A a, b \in 1..Len(attached) : a # b => LeafPages(a) \cap LeafPages(b) = {}

\* C4 amended: for all outlines whose pages are non-decreasing in outline
\* order, the combined page ranges (own range plus attached ancestor-intro
\* ranges) of any two different leaves are disjoint.
C4_LeafPagesDisjoint ==
  (pc = "returned" /\ Monotone) =>
    \A a, b \in 1..Len(attached) : a # b => LeafPages(a) \cap LeafPages(b) = {}

\* two sibling leaves with pages of their own, the first with its parent's intro
C4_Witness ==
  /\ pc = "returned"
  /\ Monotone
  /\ \E a, b \in 1..Len(attached) :
       /\ a # b
       /\ nodes[attached[a].leaf].parent # None
       /\ nodes[attached[a].leaf].parent = nodes[attached[b].leaf].parent
       /\ attached[a].intro # <<>>
       /\ attached[a].own # <<>>
       /\ attached[b].own # <<>>

\* a single root at page 1 and pages non-decreasing in outline order
WellFormed ==
  /\ N >= 1
  /\ Len(tree_roots) = 1
  /\ toc[1].page = 1
  /\ Monotone

\* the attributed pages of all leaves in collect_leaf_nodes order: per leaf its
\* ancestor-intro ranges, then its own range
AllLeafPages ==
  Concat([k \in 1..Len(attached) |->
            Concat([f \in 1..Len(attached[k].intro) |-> attached[k].intro[f].pages])
            \o attached[k].own])

\* page q lies in the intro range of a node whose intro yields no text
InEmptyIntro(q) ==
  \E P \in 1..N : /\ HasIntroRange(P)
                  /\ ~IntroHasText(P)
                  /\ nodes[P].page <= q
                  /\ q < nodes[nodes[P].children[1]].page

\* C5 as stated: for a well-formed outline the leaves' ranges, concatenated,
\* are the pages 1..D, each once.
C5_Original ==
  (pc = "returned" /\ WellFormed) => AllLeafPages = PagesFromTo(1, D)

\* C5 amended: for a well-formed outline the leaves' ranges, concatenated, are
\* the pages 1..D in order, each once, except the pages of an intro range
\* whose text is empty, which no leaf receives.
C5_RoundTrip ==
  (pc = "returned" /\ WellFormed) =>
    AllLeafPages = SelectSeq(PagesFromTo(1, D), LAMBDA q : ~InEmptyIntro(q))

\* a well-formed outline of three entries over a document of three pages,
\* with an attached intro, covering every page
C5_Witness ==
  /\ pc = "returned"
  /\ WellFormed
  /\ N = 3 /\ D = 3
  /\ Len(attached) >= 2
  /\ \E k \in 1..Len(attached) : attached[k].intro # <<>>
  /\ AllLeafPages = PagesFromTo(1, D)

\* the number of pages of a sequence of pages that have text
TextPages(ps) == Cardinality({i \in 1..Len(ps) : doc[ps[i]]})

RECURSIVE Sum(_)
Sum(xs) == IF Len(xs) = 0 THEN 0 ELSE Head(xs) + Sum(Tail(xs))

\* the whitespace-split word count of the k-th leaf's combined text: per
\* fragment "[Context", "from:", "<title>]" and the intro's words, then "---"
\* if there is any intro, then the leaf's own words
WordCount(k) ==
  LET a == attached[k]
  IN (IF a.intro = <<>> THEN 0
      ELSE Sum([f \in 1..Len(a.intro) |-> 3 + TextPages(a.intro[f].pages)]) + 1)
     + TextPages(a.own)

\* C7: a leaf's segment is kept iff the word count of its combined text is
\* >= min_word_count, with the combined text as its text, and the kept
\* segments are in collect_leaf_nodes order.
C7_KeptIffEnoughWords ==
  pc = "returned" =>
    /\ Len(attached) = Len(leaf_nodes)
    /\ \A k \in 1..Len(attached) :
         /\ attached[k].leaf = leaf_nodes[k]
         /\ Len(attached[k].words) = WordCount(k)
    /\ [i \in 1..Len(leaf_data) |-> leaf_data[i].node]
         = SelectSeq(leaf_nodes,
                     LAMBDA n : \E k \in 1..Len(attached) :
                                  attached[k].leaf = n /\ WordCount(k) >= min_word_count)
    /\ \A i \in 1..Len(leaf_data) : \E k \in 1..Len(attached) :
         /\ attached[k].leaf = leaf_data[i].node
         /\ leaf_data[i].text = attached[k].words

\* a leaf with exactly min_word_count words is kept, a leaf with an intro is
\* kept thanks to the intro's words, and a leaf with fewer words is dropped
C7_Witness ==
  /\ pc = "returned"
  /\ min_word_count > 0
  /\ \E k \in 1..Len(attached) :
       /\ WordCount(k) = min_word_count
       /\ \E i \in 1..Len(leaf_data) : leaf_data[i].node = attached[k].leaf
  /\ \E k \in 1..Len(attached) :
       /\ WordCount(k) < min_word_count
       /\ \A i \in 1..Len(leaf_data) : leaf_data[i].node # attached[k].leaf
  /\ Len(leaf_data) >= 2

\* ------------------------------------------------------ extract_chapters
\* extract_chapters is over: it returned or an exception left it
Ended == pc \in {"done", "raised"}

\* C9: a failure of the summarizer or of the file write for one segment does
\* not abort the others: once extract_chapters is over, every segment whose
\* summarization and write succeed is saved.
C9_PartialSuccess ==
  Ended =>
    \A k \in 1..Len(chapter_data) :
      (sumOutcome[k] = "ok" /\ writeOutcome[k] = "ok") =>
        get_filename(nodes[chapter_data[k].node]) \in saved

\* ------------------------------------------------------- empty outline
\* C11: for an empty outline build_toc_tree returns the empty forest, and
\* extract_pdf_content can only raise: it never reaches the tree building, the
\* leaf collection or the text extraction, it creates no node, processes no
\* leaf and produces zero segments.
C11_EmptyOutlineRaises ==
  Len(toc) = 0 =>
    /\ build_toc_tree(toc).roots = <<>>
    /\ build_toc_tree(toc).nodes = <<>>
    /\ pc \in {"open", "raised"}
    /\ pc = "open" => (ENABLED RaiseNoToc /\ ~ENABLED BuildTree)
    /\ nodes = <<>>
    /\ tree_roots = <<>>
    /\ leaf_nodes = <<>>
    /\ leaf_data = <<>>
    /\ attached = <<>>

\* extract_pdf_content has raised ValueError for a document without outline
C11_Witness ==
  /\ pc = "raised"
  /\ Len(toc) = 0
  /\ leaf_data = <<>>

\* ---------------------------------------------- levels of parent and child
\* no entry lies more than one level below the entry before it
NoLevelSkip == \A i \in 1..(N - 1) : toc[i + 1].level <= toc[i].level + 1

\* C12 as stated: for every outline, every child's level is strictly greater
\* than its parent's level and all children of one node have the same level.
C12_Original ==
  Built =>
    \A i \in 1..N :
      /\ \A c \in 1..Len(nodes[i].children) :
           nodes[nodes[i].children[c]].level > nodes[i].level
      /\ \A c, e \in 1..Len(nodes[i].children) :
           nodes[nodes[i].children[c]].level = nodes[nodes[i].children[e]].level

\* C12 amended: for every outline, every child's level is strictly greater
\* than its parent's level and the levels of one node's children never
\* increase in outline order; if no entry lies more than one level below the
\* entry before it, every child is exactly one level below its parent, so all
\* children of one node have the same level.
C12_ChildLevels ==
  Built =>
    \A i \in 1..N :
      /\ \A c \in 1..Len(nodes[i].children) :
           nodes[nodes[i].children[c]].level > nodes[i].level
      /\ \A c, e \in 1..Len(nodes[i].children) :
           c < e => nodes[nodes[i].children[c]].level >= nodes[nodes[i].children[e]].level
      /\ NoLevelSkip =>
           \A c \in 1..Len(nodes[i].children) :
             nodes[nodes[i].children[c]].level = nodes[i].level + 1

\* a built tree without level skip in which a node has two children
C12_Witness ==
  /\ pc = "built"
  /\ NoLevelSkip
  /\ \E i \in 1..N : Len(nodes[i].children) >= 2

\* ------------------------------------------- end_page before the page
\* the computed end_page of node n is less than its page
Clamped(n) == nodes[n].end_page # None /\ nodes[n].end_page < nodes[n].page

\* C13: for a node whose computed end_page is less than its page,
\* extract_text_for_node reads no page and returns the empty text; a leaf of
\* that kind gets no page and no word of its own, extract_pdf_content raises
\* nothing for it, the leaf loop goes on, and every leaf has been processed,
\* in order, when the function returns.
C13_EmptyOwnRange ==
  /\ Built =>
       \A i \in 1..N : Clamped(i) =>
         /\ NodePages(nodes[i], D) = <<>>
         /\ extract_text_for_node(doc, nodes[i], D) = <<>>
  /\ \A k \in 1..Len(attached) : Clamped(attached[k].leaf) =>
       /\ attached[k].own = <<>>
       /\ \A w \in 1..Len(attached[k].words) :
            attached[k].words[w] \in
              SeqSet(get_ancestor_intro_texts(doc, nodes, attached[k].leaf, D))
              \cup {Lit("---")}
       /\ attached[k].intro = <<>> => attached[k].words = <<>>
  /\ (Built /\ \E i \in 1..N : Clamped(i)) =>
       /\ pc # "raised"
       /\ (pc = "extract" /\ pos <= Len(leaf_nodes)) => ENABLED ExtractLeaf
       /\ (pc = "extract" /\ pos > Len(leaf_nodes)) => ENABLED ReturnLeafData
       /\ pc = "returned" =>
            /\ Len(attached) = Len(leaf_nodes)
            /\ \A k \in 1..Len(attached) : attached[k].leaf = leaf_nodes[k]

\* the function has returned after a leaf whose end_page is before its page,
\* on a page that the document has and that holds text, and a later leaf
\* has got its own pages
C13_Witness ==
  /\ pc = "returned"
  /\ \E k, m \in 1..Len(attached) :
       /\ k < m
       /\ Clamped(attached[k].leaf)
       /\ nodes[attached[k].leaf].page <= D
       /\ doc[nodes[attached[k].leaf].page]
       /\ attached[m].own # <<>>

====
